---- MODULE Spec2Model ----
(***************************************************************************)
(* Model of the proxy acquisition / validation / retry subsystem:          *)
(*   src/src/utils/request_handler.py   RequestHandler                     *)
(*   src/src/config/proxy_manager.py    ProxyManager                       *)
(*                                                                         *)
(* The program is single-threaded cooperative (asyncio): a coroutine runs  *)
(* atomically from one suspension point (an await that really suspends:    *)
(* asyncio.sleep, asyncio.wait_for, a network or file operation) to the    *)
(* next.  Every action below is one such atomic segment.  Code that is     *)
(* called from several places (execute, load_free_proxies) is written as   *)
(* operators from a state record S to the next state record, so that the   *)
(* caller's continuation runs in the same step as the callee's return.     *)
(*                                                                         *)
(* Time is a discrete clock `now` (seconds).  A pending asyncio.sleep or   *)
(* asyncio.wait_for deadline is never overslept: the clock does not pass   *)
(* the timer of a suspended task (the event loop fires timers when due).   *)
(***************************************************************************)
EXTENDS Integers, Sequences, FiniteSets, TLC

VARIABLES
    now,                  \* time.time() / datetime.now()
    _request_timestamps,  \* RequestHandler._request_timestamps
    heap,                 \* the ProxyConfig objects created so far; an object is named by its index
    proxies,              \* ProxyManager.proxies, an insertion-ordered dict of key and object
    status_cache,         \* ProxyManager.status_cache
    rate_limits,          \* ProxyManager.rate_limits
    tk,                   \* the cooperative tasks: position and locals of each
    fs,                   \* the durable files under config/proxies
    admissions,           \* history: the times, within the trailing window, at which
                          \* _wait_for_rate_limit returned
    browsers              \* the AnonymousBrowser objects: handles and position of each

vars == <<now, _request_timestamps, heap, proxies, status_cache, rate_limits, tk, fs, admissions,
          browsers>>

-----------------------------------------------------------------------------
(* Bounds of the model *)

\* the clock stops here
MaxTime == 3
\* calls one task makes
MaxCalls == 2

\* RateLimitConfig and TimeoutConfig are constructor parameters of
\* RequestHandler; the model takes small values for them (the source's
\* defaults are 60 requests, a 60 s window and a total timeout of 20 s).
requests_per_minute == 1
window_size == 2
timeout_total == 1
\* timedelta(minutes=1) of ProxyManager._check_rate_limit, and the limit of
\* ProxyManager.rate_limits (60 per minute in the source), scaled alike.
minute == 2
\* timedelta(hours=1), the freshness window of the cache file, scaled alike
hour == 2
\* times the process is ended and started again
MaxRestarts == 1
pm_requests_per_minute == 1
\* the largest max_retries a caller passes
MaxRetries == 1
\* calls of execute the first task makes in SpecExecFair
MaxFairCalls == 1
\* calls of get_working_proxy one task makes in SpecRace
MaxRaceCalls == 1
\* the largest limit max_concurrent of a batch the properties look at
MaxConcurrent == 1
\* calls of AnonymousBrowser.launch on one object
MaxLaunches == 2

Tasks == {"t1", "t2"}
\* the AnonymousBrowser objects
Browsers == {"b1", "b2"}
\* the task that calls get_working_proxy in Spec
Callers == {"t1"}

-----------------------------------------------------------------------------
(* Program constants *)

max_attempts == 3
base_delay == 1
max_delay == 10
exponential_base == 2
\* RetryConfig.jitter = 0.1, in percent
jitter_pct == 10

None == "None"

\* The names bound in the module namespace of request_handler.py: its
\* imports and top-level definitions.  `random` is not among them.
request_handler_globals ==
    {"TypeVar", "Callable", "Optional", "Dict", "Any", "asyncio", "datetime",
     "timedelta", "logging", "wraps", "time", "dataclass", "aiohttp",
     "ClientTimeout", "logger", "T", "RetryConfig", "RateLimitConfig",
     "TimeoutConfig", "RequestHandler", "with_retry"}

-----------------------------------------------------------------------------
(* Helpers *)

Min(a, b) == IF a < b THEN a ELSE b
Max(a, b) == IF a > b THEN a ELSE b

RECURSIVE Pow(_, _)
Pow(b, e) == IF e = 0 THEN 1 ELSE b * Pow(b, e - 1)

\* The state as one record, for the operators that compute a step.
St == [now |-> now, ts |-> _request_timestamps, heap |-> heap, proxies |-> proxies,
       status_cache |-> status_cache, rate_limits |-> rate_limits,
       tk |-> tk, fs |-> fs, admissions |-> admissions, browsers |-> browsers]

Becomes(S) ==
    /\ now' = S.now
    /\ _request_timestamps' = S.ts
    /\ heap' = S.heap
    /\ proxies' = S.proxies
    /\ status_cache' = S.status_cache
    /\ rate_limits' = S.rate_limits
    /\ tk' = S.tk
    /\ fs' = S.fs
    /\ admissions' = S.admissions
    /\ browsers' = S.browsers

\* AnonymousBrowser.__init__: no handle is held.  A handle field is None,
\* or holds an object that is open or closed.  `launches` counts the calls
\* of launch; `hist` is history: "launch" once a launch has completed,
\* "launch_close" once a close() called after it has completed.
NewBrowser ==
    [bpc |-> "new", step |-> 0, browser |-> None, context |-> None, page |-> None,
     current_config |-> None, launches |-> 0, hist |-> None]

\* A task that runs nothing.
IdleTask ==
    [fn |-> "idle", calls |-> 0,
     \* RequestHandler.execute
     epc |-> "idle", attempt |-> 0, last_error |-> None, timer |-> 0,
     succeedAt |-> 0, invoked |-> 0, result |-> [kind |-> None],
     \* an object is named by its index in the heap; 0 is Python's None
     arg |-> 0,
     \* ProxyManager.get_working_proxy
     gpc |-> "none", region |-> None, max_retries |-> 0, retries |-> 0,
     candidates |-> <<>>, ci |-> 0, ret |-> 0, error |-> None,
     \* ProxyManager.load_free_proxies
     source |-> 0,
     \* ProxyManager.load_all_proxies, _load_premium_if_available and
     \* _save_to_cache; `how` is history: what the last load ended with
     lpc |-> "none", svc |-> 0, cache_data |-> <<>>, written |-> 0, how |-> None,
     \* history of the running get_working_proxy call: passes through the
     \* loop body, objects validated with success, the Pool the candidates
     \* were last computed from
     iterations |-> 0, validated |-> {}, pool_seen |-> <<>>,
     \* history: self.status_cache as it was when the candidates were computed
     status_seen |-> <<>>,
     \* history: the lines the feeds have answered with in the running load
     lines_seen |-> {},
     \* history: the premium services requested in the running load
     requested |-> {},
     \* history of the running get_working_proxy call: the objects for which
     \* a validation attempt has ended
     attempted |-> {},
     \* history of the running pass over the candidates: the places in
     \* `candidates` whose validate_proxy has been called, and has ended
     started |-> {}, ended |-> {}]

-----------------------------------------------------------------------------
(* RequestHandler  (src/src/utils/request_handler.py) *)

\* _calculate_retry_delay: the exponential backoff is computed, then the
\* jitter term evaluates random.random(); the name `random` is looked up in
\* the module namespace at that point and the lookup raises NameError when it
\* is not bound.  Otherwise every delay within +-jitter of the backoff is a
\* possible result, clamped to >= 0.
_calculate_retry_delay(attempt) ==
    LET delay == Min(base_delay * Pow(exponential_base, attempt), max_delay)
    IN  IF "random" \notin request_handler_globals
        THEN [raised |-> "NameError", delays |-> {}]
        ELSE [raised |-> None,
              delays |-> {d \in 0..(2 * delay) :
                            /\ (d - delay) * 100 <= jitter_pct * delay
                            /\ (delay - d) * 100 <= jitter_pct * delay}]

\* _update_request_count
_update_request_count(S) == [S EXCEPT !.ts = Append(@, S.now)]

\* The operation is handed to asyncio.wait_for (line 74): the admission has
\* been granted, the operation is invoked and the task suspends.
StartOp(S, t) ==
    [S EXCEPT !.admissions = Append(@, S.now),
              !.tk[t].epc = "op",
              !.tk[t].invoked = @ + 1,
              !.tk[t].timer = S.now + timeout_total]

\* _wait_for_rate_limit with the age of the oldest timestamp added to the
\* sleep instead of taken off it.
_wait_for_rate_limit_AgeAdded(S, t) ==
    LET window_start == S.now - window_size
        kept == SelectSeq(S.ts, LAMBDA x : x > window_start)
        S1 == [S EXCEPT !.ts = kept]
    IN  IF Len(kept) >= requests_per_minute /\ window_size + (S.now - kept[1]) > 0
        THEN [S1 EXCEPT !.tk[t].epc = "rl_sleep",
                        !.tk[t].timer = S.now + (window_size + (S.now - kept[1]))]
        ELSE StartOp(S1, t)

\* _wait_for_rate_limit up to its suspension: old timestamps are dropped;
\* over the limit the task sleeps until the oldest one leaves the window.
\* Returning (at once, or after that sleep) appends nothing.
_wait_for_rate_limit(S, t) ==
    LET window_start == S.now - window_size
        kept == SelectSeq(S.ts, LAMBDA x : x > window_start)
        S1 == [S EXCEPT !.ts = kept]
    IN  IF Len(kept) >= requests_per_minute /\ window_size - (S.now - kept[1]) > 0
        THEN [S1 EXCEPT !.tk[t].epc = "rl_sleep",
                        !.tk[t].timer = S.now + (window_size - (S.now - kept[1]))]
        ELSE StartOp(S1, t)

\* execute ends by raising `err` to its caller.
ExecRaise(S, t, err) ==
    [S EXCEPT !.tk[t].epc = "raised", !.tk[t].timer = 0, !.tk[t].result = err]

\* execute ends by returning the operation's value (line 74).
ExecReturn(S, t, v) ==
    [S EXCEPT !.tk[t].epc = "returned",
              !.tk[t].timer = 0,
              !.tk[t].result = [kind |-> "Success", value |-> v]]

\* The head of the while loop (line 68) up to the next suspension; when the
\* attempts are used up the terminal error of line 98 is raised.
ExecLoop(S, t) ==
    IF S.tk[t].attempt < max_attempts
    THEN _wait_for_rate_limit(S, t)
    ELSE ExecRaise(S, t, [kind |-> "ExhaustedRetries",
                          attempts |-> S.tk[t].attempt,
                          last_error |-> S.tk[t].last_error])

\* execute is called (lines 64-66).  k > 0 fixes how the operation behaves:
\* its invocations 1..k-1 fail and invocation k returns; with k = 0 each
\* invocation ends as it ends.
ExecCall(S, t, k) ==
    ExecLoop([S EXCEPT !.tk[t].attempt = 0,
                       !.tk[t].last_error = None,
                       !.tk[t].succeedAt = k,
                       !.tk[t].invoked = 0,
                       !.tk[t].result = [kind |-> None]], t)

\* An attempt failed with `cause` (lines 79-96); d is the jitter's draw.
ExecFail(S, t, cause, d) ==
    LET S1 == _update_request_count([S EXCEPT !.tk[t].last_error = cause])
        delay == _calculate_retry_delay(S1.tk[t].attempt)
    IN  IF delay.raised # None
        THEN ExecRaise(S1, t, [kind |-> delay.raised])
        ELSE LET S2 == [S1 EXCEPT !.tk[t].attempt = @ + 1]
             IN  IF S2.tk[t].attempt < max_attempts
                 THEN [S2 EXCEPT !.tk[t].epc = "backoff",
                                 !.tk[t].timer = S.now + d]
                 ELSE ExecLoop(S2, t)

\* The draws the jitter offers after a failure of attempt `a`.
JitterDraws(a) ==
    IF _calculate_retry_delay(a).raised # None THEN {0}
    ELSE _calculate_retry_delay(a).delays

\* A sleep of execute is over: the one of _wait_for_rate_limit (the
\* admission is granted without another look at the timestamps) or the
\* backoff (the loop goes round).
ExecWake(S, t) ==
    IF S.tk[t].epc = "rl_sleep" THEN StartOp(S, t) ELSE ExecLoop(S, t)

-----------------------------------------------------------------------------
(* Canonical records  (src/src/config/proxy_manager.py) *)

\* class ProxyProtocol(Enum): the members, and the value of each.  A member
\* is a different Python value than its value string.
ProxyProtocolMembers ==
    {"ProxyProtocol.HTTP", "ProxyProtocol.HTTPS",
     "ProxyProtocol.SOCKS4", "ProxyProtocol.SOCKS5"}

ProtocolValue(m) ==
    CASE m = "ProxyProtocol.HTTP" -> "http"
      [] m = "ProxyProtocol.HTTPS" -> "https"
      [] m = "ProxyProtocol.SOCKS4" -> "socks4"
      [] m = "ProxyProtocol.SOCKS5" -> "socks5"

\* ProxyProtocol(value): the member with that value.
ProxyProtocol(v) == CHOOSE m \in ProxyProtocolMembers : ProtocolValue(m) = v

\* @dataclass ProxyConfig (its `status` field is never set and is left out).
ProxyConfig(server, protocol, username, password, region) ==
    [server |-> server, protocol |-> protocol, username |-> username,
     password |-> password, region |-> region]

\* str.lower() on the strings the model's inputs are made of; every other
\* string of the model is in lower case already.
lower(s) ==
    CASE s = "EU" -> "eu"
      [] s = "Eu" -> "eu"
      [] s = "US" -> "us"
      [] s = "ASIA" -> "asia"
      [] s = "HTTP" -> "http"
      [] s = "Socks4" -> "socks4"
      [] s = "SOCKS5" -> "socks5"
      [] OTHER -> s

\* Python truthiness of an Optional[str].
Truthy(s) == s # None /\ s # ""

\* self.proxies[key] = <new object rec>: an existing key keeps its place in
\* the dict, a new key goes to the end.
DictSet(d, k, o) ==
    IF \E i \in DOMAIN d : d[i].key = k
    THEN [i \in DOMAIN d |-> IF d[i].key = k THEN [key |-> k, obj |-> o] ELSE d[i]]
    ELSE Append(d, [key |-> k, obj |-> o])

StoreProxy(S, key, rec) ==
    [S EXCEPT !.heap = Append(@, rec),
              !.proxies = DictSet(@, key, Len(S.heap) + 1)]

\* self.proxies.values(), as records.
PoolRecords(S) == [i \in DOMAIN S.proxies |-> S.heap[S.proxies[i].obj]]

-----------------------------------------------------------------------------
(* Scoring and ranking: ProxyManager._get_proxy_candidates *)

\* The score of lines 366-370 as a fraction num/den:
\* success_rate * (1 / (response_time + 1)).
Score(S, o) ==
    LET server == S.heap[o].server
    IN  IF server \in DOMAIN S.status_cache
        THEN LET status == S.status_cache[server]
             IN  IF status.success_count > 0
                 THEN [num |-> status.success_count,
                       den |-> (status.success_count + status.fail_count)
                               * (status.response_time + 1)]
                 ELSE [num |-> 0, den |-> 1]
        ELSE [num |-> 0, den |-> 1]

ScoreLess(a, b) == a.num * b.den < b.num * a.den

\* InsertByScore putting the element ahead of those of equal score.
InsertByScore_Unstable(S, sorted, o) ==
    LET ahead == Cardinality({i \in DOMAIN sorted :
                                ScoreLess(Score(S, o), Score(S, sorted[i]))})
    IN  SubSeq(sorted, 1, ahead) \o <<o>> \o SubSeq(sorted, ahead + 1, Len(sorted))

\* list.sort(key=score, reverse=True): descending, and stable (elements of
\* equal score keep their order).
InsertByScore(S, sorted, o) ==
    LET ahead == Cardinality({i \in DOMAIN sorted :
                                ~ScoreLess(Score(S, sorted[i]), Score(S, o))})
    IN  SubSeq(sorted, 1, ahead) \o <<o>> \o SubSeq(sorted, ahead + 1, Len(sorted))

RECURSIVE SortByScore(_, _)
SortByScore(S, list) ==
    IF list = <<>> THEN <<>>
    ELSE InsertByScore(S, SortByScore(S, SubSeq(list, 1, Len(list) - 1)),
                       list[Len(list)])

\* RegionMismatch with the two regions compared as they are written.
RegionMismatch_CaseSensitive(proxy_region, region) ==
    /\ Truthy(region)
    /\ Truthy(proxy_region)
    /\ proxy_region # region

\* The test of line 362 that drops a record from the candidates.
RegionMismatch(proxy_region, region) ==
    /\ Truthy(region)
    /\ Truthy(proxy_region)
    /\ lower(proxy_region) # lower(region)

\* _get_proxy_candidates without the sort: the records that pass the region
\* test, in the order of the Pool.
_get_proxy_candidates_Unsorted(S, region) ==
    LET kept == SelectSeq(S.proxies,
                          LAMBDA e : ~RegionMismatch(S.heap[e.obj].region, region))
    IN  [i \in DOMAIN kept |-> kept[i].obj]

\* _get_proxy_candidates(region): the objects of the Pool that pass the
\* region test, ranked.
_get_proxy_candidates(S, region) ==
    LET kept == SelectSeq(S.proxies,
                          LAMBDA e : ~RegionMismatch(S.heap[e.obj].region, region))
    IN  SortByScore(S, [i \in DOMAIN kept |-> kept[i].obj])

-----------------------------------------------------------------------------
(* ProxyManager's own rate limit *)

\* _check_rate_limit: the counter is reset when more than a minute has
\* passed since the last reset; the answer is "exceeded".
_check_rate_limit(S) ==
    LET S1 == IF S.now - S.rate_limits.last_reset > minute
              THEN [S EXCEPT !.rate_limits.request_count = 0,
                             !.rate_limits.last_reset = S.now]
              ELSE S
    IN  [S |-> S1,
         exceeded |-> S1.rate_limits.request_count
                        >= S1.rate_limits.requests_per_minute]

\* _update_rate_limit
_update_rate_limit(S) == [S EXCEPT !.rate_limits.request_count = @ + 1]

-----------------------------------------------------------------------------
(* Line-based source feeds: load_free_proxies and _parse_proxy_list *)

\* A line of a feed is written as the list line.split(':') gives for it (a
\* string and the list of its colon-free fields determine each other), so
\* "h1:8080" is <<"h1", "8080">> and a line without a colon has one field.
\* str.strip() on the fields of the model's inputs that carry white space.
strip(s) ==
    CASE s = " h4" -> "h4"
      [] s = "1080 " -> "1080"
      [] s = " " -> ""
      [] OTHER -> s

\* line.strip().split(':'): strip() acts on the two ends of the line.
StripSplit(line) ==
    [i \in DOMAIN line |->
        IF i = 1 \/ i = Len(line) THEN strip(line[i]) ELSE line[i]]

\* The body of the loop of _parse_proxy_list for one line (lines 229-251).
ParseLine(S, line) ==
    IF Len(line) < 2 THEN S
    ELSE LET parts == StripSplit(line)
             host == parts[1]
             port == parts[2]
             protocol ==
                 IF Len(parts) > 2
                      /\ lower(parts[3]) \in {ProtocolValue(m) : m \in ProxyProtocolMembers}
                 THEN ProxyProtocol(lower(parts[3]))
                 ELSE "ProxyProtocol.HTTP"
             proxy == ProxyConfig(host \o ":" \o port, protocol, None, None, None)
         IN  StoreProxy(S, proxy.server, proxy)

\* _parse_proxy_list(content): content.splitlines(), line by line.
RECURSIVE _parse_proxy_list(_, _)
_parse_proxy_list(S, content) ==
    IF content = <<>> THEN S
    ELSE _parse_proxy_list(ParseLine(S, Head(content)), Tail(content))

\* The feeds of load_free_proxies (lines 210-214).
sources ==
    <<"TheSpeedX/PROXY-List/master/http.txt",
      "ShiftyTR/Proxy-List/master/proxy.txt",
      "clarketm/proxy-list/master/proxy-list.txt">>

\* load_free_proxies is entered: the session is opened and the first feed
\* requested.
load_free_proxies(S, t) == [S EXCEPT !.tk[t].source = 1]

\* The request of the current feed has ended: `fetched` is a raised
\* exception (logged), a status other than 200 (ignored), or a text.  Then
\* the next feed is requested, or load_free_proxies returns (source = 0).
FetchEnds(S, t, fetched) ==
    LET S1 == IF fetched.kind = "text"
              THEN [_parse_proxy_list(S, fetched.content) EXCEPT
                      !.tk[t].lines_seen =
                          @ \cup {fetched.content[i] : i \in DOMAIN fetched.content}]
              ELSE S
    IN  [S1 EXCEPT !.tk[t].source = IF @ < Len(sources) THEN @ + 1 ELSE 0]

-----------------------------------------------------------------------------
(* Validation: validate_proxy and _validate_proxy_internal *)

\* The check reached an endpoint that answered 200 (lines 283-305): the
\* region of the object is overwritten when the answer names a country, the
\* status is created, or an existing one gets its success_count raised.
ValidateSucceeds(S, o, country, response_time) ==
    LET server == S.heap[o].server
        S1 == IF country # None THEN [S EXCEPT !.heap[o].region = country] ELSE S
        status ==
            IF server \in DOMAIN S.status_cache
            THEN [S.status_cache[server] EXCEPT !.success_count = @ + 1]
            ELSE [last_check |-> S.now, response_time |-> response_time,
                  success_count |-> 1, fail_count |-> 0, last_error |-> None]
    IN  [S1 EXCEPT !.status_cache = (server :> status) @@ @]

\* ValidateFails counting one failure for each of the three validation URLs.
ValidateFails_PerEndpoint(S, o) ==
    LET server == S.heap[o].server
        status ==
            IF server \in DOMAIN S.status_cache
            THEN [S.status_cache[server] EXCEPT
                    !.fail_count = @ + 3,
                    !.last_error = "All validation URLs failed"]
            ELSE [last_check |-> S.now, response_time |-> 10,
                  success_count |-> 0, fail_count |-> 3,
                  last_error |-> "All validation URLs failed"]
    IN  [S EXCEPT !.status_cache = (server :> status) @@ @]

\* Every endpoint failed, or building the request raised (lines 310-326).
ValidateFails(S, o) ==
    LET server == S.heap[o].server
        status ==
            IF server \in DOMAIN S.status_cache
            THEN [S.status_cache[server] EXCEPT
                    !.fail_count = @ + 1,
                    !.last_error = "All validation URLs failed"]
            ELSE [last_check |-> S.now, response_time |-> 10,
                  success_count |-> 0, fail_count |-> 1,
                  last_error |-> "All validation URLs failed"]
    IN  [S EXCEPT !.status_cache = (server :> status) @@ @]

\* proxy.protocol.value exists only on a member of ProxyProtocol; on a
\* record whose protocol is a plain string the attribute access raises for
\* every endpoint, before any request is sent, and the check returns False.
CanReachEndpoint(S, o) == S.heap[o].protocol \in ProxyProtocolMembers

\* validate_proxy(proxy): execute(_validate_proxy_internal, proxy).
validate_proxy(S, t, o) == ExecCall([S EXCEPT !.tk[t].arg = o], t, 0)

-----------------------------------------------------------------------------
(* ProxyManager.get_working_proxy *)

\* get_working_proxy is left: its locals and those of execute are gone.
GwpLeave(S, t) ==
    [S EXCEPT !.tk[t].epc = "idle", !.tk[t].timer = 0, !.tk[t].attempt = 0,
              !.tk[t].last_error = None, !.tk[t].invoked = 0,
              !.tk[t].result = [kind |-> None], !.tk[t].arg = 0,
              !.tk[t].candidates = <<>>, !.tk[t].ci = 0,
              !.tk[t].region = None, !.tk[t].max_retries = 0,
              !.tk[t].retries = 0, !.tk[t].iterations = 0,
              !.tk[t].pool_seen = <<>>, !.tk[t].status_seen = <<>>,
              !.tk[t].lines_seen = {}, !.tk[t].started = {}, !.tk[t].ended = {}]

GwpReturn(S, t, v) ==
    GwpLeave([S EXCEPT !.tk[t].gpc = "returned", !.tk[t].ret = v], t)

\* An exception leaves get_working_proxy: nothing in it catches one.
GwpRaise(S, t) ==
    GwpLeave([S EXCEPT !.tk[t].gpc = "raised", !.tk[t].ret = 0,
                       !.tk[t].error = S.tk[t].result.kind], t)

\* GwpTry starting the check of the next candidate along with the one it
\* awaits.
GwpTry_TwoAtOnce(S, t) ==
    IF S.tk[t].ci <= Len(S.tk[t].candidates)
    THEN validate_proxy([S EXCEPT !.tk[t].gpc = "validating",
                                  !.tk[t].started =
                                      @ \cup ({S.tk[t].ci, S.tk[t].ci + 1}
                                                \cap DOMAIN S.tk[t].candidates)],
                        t, S.tk[t].candidates[S.tk[t].ci])
    ELSE [S EXCEPT !.tk[t].retries = @ + 1,
                   !.tk[t].gpc = "retry_sleep",
                   !.tk[t].epc = "idle",
                   !.tk[t].timer = S.now + 1]

\* The for loop over the candidates (line 347) at candidate ci; after the
\* last one the round is over (lines 352-353).
GwpTry(S, t) ==
    IF S.tk[t].ci <= Len(S.tk[t].candidates)
    THEN validate_proxy([S EXCEPT !.tk[t].gpc = "validating",
                                  !.tk[t].started = @ \cup {S.tk[t].ci}],
                        t, S.tk[t].candidates[S.tk[t].ci])
    ELSE [S EXCEPT !.tk[t].retries = @ + 1,
                   !.tk[t].gpc = "retry_sleep",
                   !.tk[t].epc = "idle",
                   !.tk[t].timer = S.now + 1]

\* candidates = self._get_proxy_candidates(region)
GwpCandidates(S, t) ==
    [S EXCEPT !.tk[t].candidates = _get_proxy_candidates(S, S.tk[t].region),
              !.tk[t].ci = 1,
              !.tk[t].pool_seen =
                  [i \in DOMAIN S.proxies |->
                      [obj |-> S.proxies[i].obj, rec |-> S.heap[S.proxies[i].obj]]],
              !.tk[t].status_seen = S.status_cache,
              !.tk[t].started = {},
              !.tk[t].ended = {}]

\* The head of the while loop (line 331) up to the next suspension.
GwpLoop(S, t) ==
    IF S.tk[t].retries < S.tk[t].max_retries
    THEN LET check == _check_rate_limit([S EXCEPT !.tk[t].iterations = @ + 1])
         IN  IF check.exceeded
             THEN [check.S EXCEPT !.tk[t].gpc = "rl_sleep",
                                  !.tk[t].timer = S.now + 1]
             ELSE LET S1 == GwpCandidates(check.S, t)
                  IN  IF S1.tk[t].candidates = <<>>
                      THEN load_free_proxies([S1 EXCEPT !.tk[t].gpc = "loading"], t)
                      ELSE GwpTry(S1, t)
    ELSE GwpReturn(S, t, 0)

\* get_working_proxy(region, max_retries) is called.
get_working_proxy(S, t, region, max_retries) ==
    GwpLoop([S EXCEPT !.tk[t].fn = "gwp",
                      !.tk[t].calls = @ + 1,
                      !.tk[t].region = region,
                      !.tk[t].max_retries = max_retries,
                      !.tk[t].retries = 0,
                      !.tk[t].candidates = <<>>,
                      !.tk[t].ci = 0,
                      !.tk[t].ret = 0,
                      !.tk[t].error = None,
                      !.tk[t].iterations = 0,
                      !.tk[t].validated = {},
                      !.tk[t].attempted = {},
                      !.tk[t].pool_seen = <<>>,
                      !.tk[t].status_seen = <<>>], t)

\* load_free_proxies has returned to line 341.
GwpAfterLoad(S, t) ==
    LET S1 == GwpCandidates(S, t)
    IN  IF S1.tk[t].candidates = <<>>
        THEN GwpReturn(S1, t, 0)
        ELSE GwpTry(S1, t)

\* GwpAfterValidate handing the candidate out whatever the check returned.
GwpAfterValidate_Unchecked(S, t) ==
    IF S.tk[t].epc = "raised"
    THEN GwpRaise(S, t)
    ELSE GwpReturn(_update_rate_limit(S), t, S.tk[t].arg)

\* validate_proxy has ended for candidate ci (lines 348-350): execute raised,
\* or it returned the value of the check.
GwpAfterValidate(S, t) ==
    IF S.tk[t].epc = "raised"
    THEN GwpRaise(S, t)
    ELSE IF S.tk[t].result.value
         THEN GwpReturn(_update_rate_limit(S), t, S.tk[t].arg)
         ELSE GwpTry([S EXCEPT !.tk[t].ci = @ + 1], t)

-----------------------------------------------------------------------------
(* Persistent cache: to_dict, _save_to_cache, _load_from_cache *)

\* ProxyConfig.to_dict: self.protocol.value exists only on a member of
\* ProxyProtocol; on a plain string the attribute access raises.
to_dict(rec) ==
    IF rec.protocol \in ProxyProtocolMembers
    THEN [raised |-> None,
          dict |-> [server |-> rec.server, protocol |-> ProtocolValue(rec.protocol),
                    username |-> rec.username, password |-> rec.password,
                    region |-> rec.region]]
    ELSE [raised |-> "AttributeError"]

\* ProxyConfig(**proxy_data): a dataclass stores the arguments as they are
\* given, the protocol string included.
FromDict(d) == ProxyConfig(d.server, d.protocol, d.username, d.password, d.region)

\* The cache file as _save_to_cache entered at `S` would write it.
CacheData(S) == [i \in DOMAIN S.proxies |-> to_dict(S.heap[S.proxies[i].obj]).dict]

\* load_all_proxies is left.
LoadLeave(S, t, how) ==
    [S EXCEPT !.tk[t].lpc = "done", !.tk[t].how = how, !.tk[t].source = 0,
              !.tk[t].svc = 0, !.tk[t].cache_data = <<>>, !.tk[t].written = 0]

\* _save_to_cache up to the opening of the file (lines 173-175); an
\* exception of to_dict is caught and logged, and the file is not touched.
_save_to_cache(S, t) ==
    IF \E i \in DOMAIN S.proxies : to_dict(S.heap[S.proxies[i].obj]).raised # None
    THEN LoadLeave(S, t, "sources")
    ELSE [S EXCEPT !.tk[t].lpc = "save_open", !.tk[t].cache_data = CacheData(S),
                   !.tk[t].written = 0]

\* _load_default_proxies (lines 182-204).
default_proxies ==
    << [region |-> "US", server |-> "104.227.13.3:8080", protocol |-> "ProxyProtocol.HTTP"],
       [region |-> "US", server |-> "104.227.13.4:8080", protocol |-> "ProxyProtocol.HTTPS"],
       [region |-> "EU", server |-> "45.155.68.129:8080", protocol |-> "ProxyProtocol.HTTP"],
       [region |-> "EU", server |-> "45.155.68.130:8080", protocol |-> "ProxyProtocol.SOCKS5"],
       [region |-> "ASIA", server |-> "103.133.222.1:8080", protocol |-> "ProxyProtocol.HTTP"],
       [region |-> "ASIA", server |-> "103.133.222.2:8080", protocol |-> "ProxyProtocol.SOCKS4"] >>

RECURSIVE StoreDefaults(_, _)
StoreDefaults(S, list) ==
    IF list = <<>> THEN S
    ELSE StoreDefaults(
            StoreProxy(S, Head(list).server,
                       ProxyConfig(Head(list).server, Head(list).protocol,
                                   None, None, Head(list).region)),
            Tail(list))

_load_default_proxies(S) == StoreDefaults(S, default_proxies)

\* The except branch of load_all_proxies (lines 147-150).
LoadAllExcept(S, t) == LoadLeave(_load_default_proxies(S), t, "defaults")

-----------------------------------------------------------------------------
(* Premium services: _load_premium_if_available, load_premium_proxies *)

\* self.proxy_sources["premium"] (lines 111-118).
premium_services == {"brightdata", "oxylabs", "smartproxy", "webshare", "proxyrack"}

\* _parse_premium_proxies for brightdata: the loop of lines 431-438; an
\* exception (a protocol that is no value of ProxyProtocol) ends the loop
\* and is logged.  The key of the dict is the host alone.
RECURSIVE ParseBrightdata(_, _)
ParseBrightdata(S, list) ==
    IF list = <<>> THEN S
    ELSE LET proxy == Head(list)
         IN  IF proxy.protocol \notin {ProtocolValue(m) : m \in ProxyProtocolMembers}
             THEN S
             ELSE ParseBrightdata(
                     StoreProxy(S, proxy.host,
                                ProxyConfig(proxy.host \o ":" \o proxy.port,
                                            ProxyProtocol(proxy.protocol),
                                            proxy.username, proxy.password,
                                            proxy.country)),
                     Tail(list))

\* _parse_premium_proxies(service, data): only brightdata has a parser.
_parse_premium_proxies(S, service, data) ==
    IF service = "brightdata" THEN ParseBrightdata(S, data) ELSE S

\* The loop of _load_premium_if_available at service svc (lines 453-454):
\* load_premium_proxies raises ValueError for an unknown service before it
\* requests anything, which ends the loop (line 455); a known service is
\* requested.  After the loop load_all_proxies saves the cache.
PremiumLoop(S, t) ==
    IF S.tk[t].svc > Len(S.fs.services.list) THEN _save_to_cache(S, t)
    ELSE IF S.fs.services.list[S.tk[t].svc] \notin premium_services
         THEN _save_to_cache(S, t)
         ELSE [S EXCEPT !.tk[t].lpc = "premium",
                        !.tk[t].requested = @ \cup {S.fs.services.list[S.tk[t].svc]}]

\* _load_premium_if_available: config_file.exists() is outside every try of
\* it, so an OSError of the stat reaches load_all_proxies; without the file
\* nothing is loaded.
_load_premium_if_available(S, t) ==
    IF S.fs.stat_denied THEN LoadAllExcept(S, t)
    ELSE IF ~S.fs.services.exists THEN _save_to_cache(S, t)
    ELSE PremiumLoop([S EXCEPT !.tk[t].svc = 1], t)

\* The request of load_premium_proxies has ended (lines 419-424).
PremiumFetchEnds(S, t, fetched) ==
    LET S1 == IF fetched.kind = "data"
              THEN _parse_premium_proxies(S, S.fs.services.list[S.tk[t].svc], fetched.data)
              ELSE S
    IN  PremiumLoop([S1 EXCEPT !.tk[t].svc = @ + 1], t)

-----------------------------------------------------------------------------
(* ProxyManager.load_all_proxies *)

\* The cache missed: the sources are loaded (line 140).
LoadSources(S, t) == load_free_proxies([S EXCEPT !.tk[t].lpc = "free"], t)

\* _load_from_cache up to the opening of the file (lines 154-159): an
\* exception of the stat is caught and is a miss, like a missing file and
\* one that is an hour old.
_load_from_cache(S, t) ==
    IF ~S.fs.stat_denied /\ S.fs.cache.exists /\ S.now - S.fs.cache.mtime < hour
    THEN [S EXCEPT !.tk[t].lpc = "cache_read"]
    ELSE LoadSources(S, t)

\* load_all_proxies is called.
load_all_proxies(S, t) ==
    _load_from_cache([S EXCEPT !.tk[t].fn = "load_all",
                               !.tk[t].calls = @ + 1,
                               !.tk[t].how = None,
                               !.tk[t].lines_seen = {},
                               !.tk[t].requested = {}], t)

RECURSIVE StoreCached(_, _)
StoreCached(S, list) ==
    IF list = <<>> THEN S
    ELSE StoreCached(StoreProxy(S, Head(list).server, FromDict(Head(list))), Tail(list))

\* The file has been read (lines 160-165): json.loads raises on a text that
\* is not complete, which is a miss; a complete one is stored entry by entry
\* and is a hit, whatever the number of entries.
CacheReadEnds(S, t) ==
    IF S.fs.cache.complete
    THEN LoadLeave(StoreCached(S, S.fs.cache.text), t, "cache")
    ELSE LoadSources(S, t)

\* aiofiles.open(cache_file, 'w') has opened the file, which truncates it.
SaveOpened(S, t) ==
    [S EXCEPT !.tk[t].lpc = "save_write",
              !.fs.cache = [exists |-> TRUE, text |-> <<>>, complete |-> FALSE,
                            mtime |-> S.now],
              !.fs.before = S.fs.cache]

\* One more entry of the text reaches the file.
SaveFlushed(S, t) ==
    [S EXCEPT !.tk[t].written = @ + 1,
              !.fs.cache.text = Append(@, S.tk[t].cache_data[S.tk[t].written + 1]),
              !.fs.cache.mtime = S.now]

\* The file is closed with the whole text in it; load_all_proxies returns.
SaveClosed(S, t) ==
    LoadLeave([S EXCEPT !.fs.cache.complete = TRUE,
                        !.fs.cache.mtime = S.now,
                        !.fs.saved = PoolRecords(S)], t, "sources")

-----------------------------------------------------------------------------
(* Actions *)

\* The task waits on a timer: a sleep or wait_for's deadline.
Suspended(t) ==
    \/ tk[t].epc \in {"op", "rl_sleep", "backoff"}
    \/ tk[t].gpc \in {"rl_sleep", "retry_sleep"}

\* Time passes, but not past a due timer.
Tick ==
    /\ now < MaxTime
    /\ \A t \in Tasks : Suspended(t) => now < tk[t].timer
    /\ Becomes([St EXCEPT
                  !.now = @ + 1,
                  !.admissions = SelectSeq(@, LAMBDA x : x > now + 1 - window_size)])

\* A task calls RequestHandler.execute with some operation.
Execute(t) ==
    /\ tk[t].fn \in {"idle", "execute"}
    /\ tk[t].epc \in {"idle", "returned", "raised"}
    /\ tk[t].calls < MaxCalls
    /\ \E k \in 1..(max_attempts + 1) :
          Becomes(ExecCall([St EXCEPT !.tk[t].fn = "execute",
                                      !.tk[t].calls = @ + 1], t, k))

\* asyncio.sleep returns in execute.
Wake(t) ==
    /\ tk[t].fn \in {"execute", "gwp"}
    /\ tk[t].epc \in {"rl_sleep", "backoff"}
    /\ now >= tk[t].timer
    /\ Becomes(ExecWake(St, t))

\* The operation returns a value.
OpReturns(t) ==
    /\ tk[t].fn = "execute"
    /\ tk[t].epc = "op"
    /\ tk[t].invoked = tk[t].succeedAt
    /\ Becomes(ExecReturn(St, t, "value"))

\* The operation raises.
OpRaises(t) ==
    /\ tk[t].fn = "execute"
    /\ tk[t].epc = "op"
    /\ tk[t].invoked # tk[t].succeedAt
    /\ \E d \in JitterDraws(tk[t].attempt) :
          Becomes(ExecFail(St, t, "operation error", d))

\* wait_for's deadline passes before the operation has ended.
OpTimesOut(t) ==
    /\ tk[t].fn = "execute"
    /\ tk[t].epc = "op"
    /\ tk[t].invoked # tk[t].succeedAt
    /\ now >= tk[t].timer
    /\ \E d \in JitterDraws(tk[t].attempt) :
          Becomes(ExecFail(St, t, "Operation timed out", d))

\* What the cache file does not exist as.
NoFile == [exists |-> FALSE, text |-> <<>>, complete |-> FALSE, mtime |-> 0]

\* The durable state at the start: no cache file; the premium config file
\* absent or naming services; the config directory readable.  `before` is
\* the cache file as it was when the last save opened it, `saved` the Pool
\* records of the last completed save, `at_crash` the cache file as the last
\* kill of the process left it, `restarts` counts the restarts.
NoFiles ==
    [cache |-> NoFile, services |-> [exists |-> FALSE, list |-> <<>>],
     stat_denied |-> FALSE,
     before |-> NoFile, saved |-> <<>>,
     at_crash |-> [crashed |-> FALSE, cache |-> NoFile], restarts |-> 0]

InitHandler ==
    /\ now = 0
    /\ _request_timestamps = <<>>
    /\ rate_limits = [requests_per_minute |-> pm_requests_per_minute,
                      request_count |-> 0, last_reset |-> 0]
    /\ tk = [t \in Tasks |-> IdleTask]
    /\ admissions = <<>>
    /\ browsers = [b \in Browsers |-> NewBrowser]

InitCommon == InitHandler /\ status_cache = <<>>

InitExec == InitCommon /\ heap = <<>> /\ proxies = <<>> /\ fs = NoFiles

NextExec ==
    \/ Tick
    \/ \E t \in Tasks : Execute(t)
    \/ \E t \in Tasks : Wake(t)
    \/ \E t \in Tasks : OpReturns(t)
    \/ \E t \in Tasks : OpRaises(t)
    \/ \E t \in Tasks : OpTimesOut(t)

\* Tasks that call RequestHandler.execute on one shared handler.
SpecExec == InitExec /\ [][NextExec]_vars

\* Time passes beyond the horizon of the model while a task waits on a
\* timer that is not due yet: the clock of the event loop does not stop.
TickOver ==
    /\ now >= MaxTime
    /\ \E t \in Tasks : Suspended(t) /\ now < tk[t].timer
    /\ \A t \in Tasks : Suspended(t) => now < tk[t].timer
    /\ Becomes([St EXCEPT
                  !.now = @ + 1,
                  !.admissions = SelectSeq(@, LAMBDA x : x > now + 1 - window_size)])

\* A call of execute in SpecExecFair: the first task makes MaxFairCalls
\* calls, every other task one.
ExecuteFair(t) ==
    /\ tk[t].calls < (IF t \in Callers THEN MaxFairCalls ELSE 1)
    /\ Execute(t)

NextExecFair ==
    \/ Tick
    \/ TickOver
    \/ \E t \in Tasks : ExecuteFair(t)
    \/ \E t \in Tasks : Wake(t)
    \/ \E t \in Tasks : OpReturns(t)
    \/ \E t \in Tasks : OpRaises(t)
    \/ \E t \in Tasks : OpTimesOut(t)

\* SpecExec under the scheduling of the event loop: time passes, a timer
\* that is due fires (asyncio.sleep returns, wait_for's deadline cancels
\* the operation), and an operation that returns does so.
SpecExecFair ==
    /\ InitExec
    /\ [][NextExecFair]_vars
    /\ WF_vars(Tick)
    /\ WF_vars(TickOver)
    /\ \A t \in Tasks : WF_vars(Wake(t))
    /\ \A t \in Tasks : WF_vars(OpReturns(t))
    /\ \A t \in Tasks : WF_vars(OpTimesOut(t))

-----------------------------------------------------------------------------
(* Inputs of the Pool model *)

\* Region filters a caller passes.
RegionFilters == {None, "eu"}

\* The country an endpoint's answer may name ('country' in data), or none.
Countries == {None, "US"}

\* Texts a feed may answer with.
FeedTexts == {<<>>, << <<"h1", "8080">> >>}

Fetched ==
    {[kind |-> "error"], [kind |-> "status"]}
        \cup {[kind |-> "text", content |-> c] : c \in FeedTexts}

\* Pools the loader leaves behind (key and record, in insertion order):
\* nothing (every feed failed), two lines of a feed, a feed line followed by
\* two records of the brightdata service, and records read back from the
\* cache file (protocol is the stored string).
InitialPools ==
    { <<>>,
      << [key |-> "h1:8080",
          rec |-> ProxyConfig("h1:8080", "ProxyProtocol.HTTP", None, None, None)],
         [key |-> "h2:1080",
          rec |-> ProxyConfig("h2:1080", "ProxyProtocol.HTTP", None, None, None)] >>,
      << [key |-> "h1:8080",
          rec |-> ProxyConfig("h1:8080", "ProxyProtocol.HTTP", None, None, None)],
         [key |-> "h2",
          rec |-> ProxyConfig("h2:1080", "ProxyProtocol.SOCKS5", "u", "p", "EU")],
         [key |-> "h3",
          rec |-> ProxyConfig("h3:8080", "ProxyProtocol.HTTP", None, None, "us")] >>,
      << [key |-> "h1:8080",
          rec |-> ProxyConfig("h1:8080", "http", None, None, None)],
         [key |-> "h2:1080",
          rec |-> ProxyConfig("h2:1080", "socks5", "u", "p", "EU")] >> }

\* A ProxyStatus after `s` successful and `f` failed validations, the first
\* of which took `r`.
ProxyStatus(r, s, f) ==
    [last_check |-> 0, response_time |-> r, success_count |-> s, fail_count |-> f,
     last_error |-> None]

\* Pools whose records have been validated before, with the status each
\* has: two records of region EU, which answered after 4 and after 1, and
\* one of region US, which answered at once; all three never failed.
RankedPools ==
    { [pool |->
          << [key |-> "e200:8080",
              rec |-> ProxyConfig("e200:8080", "ProxyProtocol.HTTP", None, None, "EU")],
             [key |-> "u10:8080",
              rec |-> ProxyConfig("u10:8080", "ProxyProtocol.HTTP", None, None, "US")],
             [key |-> "e50:8080",
              rec |-> ProxyConfig("e50:8080", "ProxyProtocol.HTTP", None, None, "EU")] >>,
       status |-> ("e200:8080" :> ProxyStatus(4, 1, 0))
                    @@ ("u10:8080" :> ProxyStatus(0, 1, 0))
                    @@ ("e50:8080" :> ProxyStatus(1, 1, 0))] }

\* The Pool and the statuses a caller of get_working_proxy may find.
LoadedPools ==
    {[pool |-> q, status |-> <<>>] : q \in InitialPools} \cup RankedPools

-----------------------------------------------------------------------------
(* Actions of the Pool model: callers of get_working_proxy *)

\* A task calls get_working_proxy.
GetWorkingProxy(t) ==
    /\ tk[t].fn \in {"idle", "gwp"}
    /\ tk[t].gpc \in {"none", "returned", "raised"}
    /\ tk[t].calls < MaxCalls
    /\ \E region \in RegionFilters, max_retries \in 1..MaxRetries :
          Becomes(get_working_proxy(St, t, region, max_retries))

\* asyncio.sleep(1) returns in get_working_proxy (lines 334, 353).
GwpWake(t) ==
    /\ tk[t].gpc \in {"rl_sleep", "retry_sleep"}
    /\ now >= tk[t].timer
    /\ Becomes(GwpLoop([St EXCEPT !.tk[t].timer = 0], t))

\* The request of a feed ends, in the load_free_proxies of line 340.
GwpFetchEnds(t) ==
    /\ tk[t].gpc = "loading"
    /\ \E fetched \in Fetched :
          LET S1 == FetchEnds(St, t, fetched)
          IN  Becomes(IF S1.tk[t].source = 0 THEN GwpAfterLoad(S1, t) ELSE S1)

\* _validate_proxy_internal returns True.
ValidateReturnsTrue(t) ==
    /\ tk[t].gpc = "validating"
    /\ tk[t].epc = "op"
    /\ CanReachEndpoint(St, tk[t].arg)
    /\ \E country \in Countries :
          LET S1 == ValidateSucceeds(St, tk[t].arg, country,
                                     now - (tk[t].timer - timeout_total))
              S2 == [S1 EXCEPT !.tk[t].validated = @ \cup {tk[t].arg},
                               !.tk[t].attempted = @ \cup {tk[t].arg},
                               !.tk[t].ended = @ \cup {tk[t].ci}]
          IN  Becomes(GwpAfterValidate(ExecReturn(S2, t, TRUE), t))

\* _validate_proxy_internal returns False.
ValidateReturnsFalse(t) ==
    /\ tk[t].gpc = "validating"
    /\ tk[t].epc = "op"
    /\ Becomes(GwpAfterValidate(
                  ExecReturn(ValidateFails([St EXCEPT !.tk[t].attempted = @ \cup {tk[t].arg},
                                                      !.tk[t].ended = @ \cup {tk[t].ci}],
                                           tk[t].arg), t, FALSE), t))

\* wait_for's deadline passes during _validate_proxy_internal, which is
\* cancelled where it stands and leaves the status as it was.
ValidateTimesOut(t) ==
    /\ tk[t].gpc = "validating"
    /\ tk[t].epc = "op"
    /\ CanReachEndpoint(St, tk[t].arg)
    /\ now >= tk[t].timer
    /\ \E d \in JitterDraws(tk[t].attempt) :
          LET S1 == ExecFail([St EXCEPT !.tk[t].attempted = @ \cup {tk[t].arg},
                                        !.tk[t].ended = @ \cup {tk[t].ci}],
                             t, "Operation timed out", d)
          IN  Becomes(IF S1.tk[t].epc \in {"raised", "returned"}
                      THEN GwpAfterValidate(S1, t)
                      ELSE S1)

Init ==
    /\ InitHandler
    /\ fs = NoFiles
    /\ \E p \in LoadedPools :
          /\ heap = [i \in DOMAIN p.pool |-> p.pool[i].rec]
          /\ proxies = [i \in DOMAIN p.pool |-> [key |-> p.pool[i].key, obj |-> i]]
          /\ status_cache = p.status

Next ==
    \/ Tick
    \/ \E t \in Callers : GetWorkingProxy(t)
    \/ \E t \in Callers : GwpWake(t)
    \/ \E t \in Callers : GwpFetchEnds(t)
    \/ \E t \in Callers : Wake(t)
    \/ \E t \in Callers : ValidateReturnsTrue(t)
    \/ \E t \in Callers : ValidateReturnsFalse(t)
    \/ \E t \in Callers : ValidateTimesOut(t)

\* Tasks that call get_working_proxy on one ProxyManager whose Pool has
\* been loaded.
Spec == Init /\ [][Next]_vars

-----------------------------------------------------------------------------
(* Concurrent callers of get_working_proxy *)

\* The Pools two concurrent callers may find: nothing, or two lines of a
\* feed.
RacePools ==
    { <<>>,
      << [key |-> "h1:8080",
          rec |-> ProxyConfig("h1:8080", "ProxyProtocol.HTTP", None, None, None)],
         [key |-> "h2:1080",
          rec |-> ProxyConfig("h2:1080", "ProxyProtocol.HTTP", None, None, None)] >> }

InitRace ==
    /\ InitCommon
    /\ fs = NoFiles
    /\ \E p \in RacePools :
          /\ heap = [i \in DOMAIN p |-> p[i].rec]
          /\ proxies = [i \in DOMAIN p |-> [key |-> p[i].key, obj |-> i]]

\* A task calls get_working_proxy, MaxRaceCalls times at most.
GetWorkingProxyRace(t) ==
    /\ tk[t].calls < MaxRaceCalls
    /\ GetWorkingProxy(t)

NextRace ==
    \/ Tick
    \/ \E t \in Tasks : GetWorkingProxyRace(t)
    \/ \E t \in Tasks : GwpWake(t)
    \/ \E t \in Tasks : GwpFetchEnds(t)
    \/ \E t \in Tasks : Wake(t)
    \/ \E t \in Tasks : ValidateReturnsTrue(t)
    \/ \E t \in Tasks : ValidateReturnsFalse(t)
    \/ \E t \in Tasks : ValidateTimesOut(t)

\* Two tasks that call get_working_proxy on one ProxyManager and interleave
\* at its awaits.
SpecRace == InitRace /\ [][NextRace]_vars

-----------------------------------------------------------------------------
(* The loader: load_all_proxies over the durable files, and restarts *)

\* Texts a feed may answer with: nothing, or lines of which two are no
\* relay (an empty line, a line without colon) and one has a port that is
\* none (99999).
LoadFeedTexts ==
    {<<>>,
     << <<"h1", "8080">>, <<"">>, <<"garbage">>, <<" h4", "1080 ">>,
        <<"h5", "99999">>, <<"h2", "1080", "SOCKS5">> >>}

LoadFetched ==
    {[kind |-> "error"], [kind |-> "status"]}
        \cup {[kind |-> "text", content |-> c] : c \in LoadFeedTexts}

\* Answers of a premium service: data["proxies"] of a 200, or no data.
PremiumFetched ==
    {[kind |-> "error"],
     [kind |-> "data",
      data |-> << [host |-> "h2", port |-> "1080", protocol |-> "socks5",
                   username |-> "u", password |-> "p", country |-> "EU"],
                  [host |-> "h3", port |-> "8080", protocol |-> "bogus",
                   username |-> None, password |-> None, country |-> "us"] >>]}

\* The durable files a first start may find.
LoadFiles ==
    {[NoFiles EXCEPT !.services = sv, !.stat_denied = d] :
        sv \in {[exists |-> FALSE, list |-> <<>>],
                [exists |-> TRUE, list |-> <<"brightdata">>],
                [exists |-> TRUE, list |-> <<"nosuch", "brightdata">>]},
        d \in BOOLEAN}

\* The task the constructor creates for initialize(), which may call
\* load_all_proxies again.
Loaders == {"t1"}

LoadAllProxies(t) ==
    /\ tk[t].fn \in {"idle", "load_all"}
    /\ tk[t].lpc \in {"none", "done"}
    /\ tk[t].calls < MaxCalls
    /\ Becomes(load_all_proxies(St, t))

LoadCacheRead(t) ==
    /\ tk[t].lpc = "cache_read"
    /\ Becomes(CacheReadEnds(St, t))

LoadFetchEnds(t) ==
    /\ tk[t].lpc = "free"
    /\ \E fetched \in LoadFetched :
          LET S1 == FetchEnds(St, t, fetched)
          IN  Becomes(IF S1.tk[t].source = 0
                      THEN _load_premium_if_available(S1, t)
                      ELSE S1)

LoadPremiumEnds(t) ==
    /\ tk[t].lpc = "premium"
    /\ \E fetched \in PremiumFetched : Becomes(PremiumFetchEnds(St, t, fetched))

SaveOpens(t) ==
    /\ tk[t].lpc = "save_open"
    /\ Becomes(SaveOpened(St, t))

SaveFlushes(t) ==
    /\ tk[t].lpc = "save_write"
    /\ tk[t].written < Len(tk[t].cache_data)
    /\ Becomes(SaveFlushed(St, t))

SaveCloses(t) ==
    /\ tk[t].lpc = "save_write"
    /\ tk[t].written = Len(tk[t].cache_data)
    /\ Becomes(SaveClosed(St, t))

\* The process ends where it stands (it is killed, or exits) and is started
\* again: a new ProxyManager is constructed, the files are what they were.
Restart ==
    /\ fs.restarts < MaxRestarts
    /\ now' = now
    /\ _request_timestamps' = <<>>
    /\ heap' = <<>>
    /\ proxies' = <<>>
    /\ status_cache' = <<>>
    /\ rate_limits' = [requests_per_minute |-> pm_requests_per_minute,
                       request_count |-> 0, last_reset |-> now]
    /\ tk' = [t \in Tasks |-> IdleTask]
    /\ admissions' = <<>>
    /\ browsers' = [b \in Browsers |-> NewBrowser]
    /\ fs' = [fs EXCEPT !.restarts = @ + 1,
                        !.at_crash = [crashed |-> TRUE, cache |-> fs.cache]]

InitLoad ==
    /\ InitCommon
    /\ heap = <<>>
    /\ proxies = <<>>
    /\ fs \in LoadFiles

NextLoad ==
    \/ Tick
    \/ Restart
    \/ \E t \in Loaders : LoadAllProxies(t)
    \/ \E t \in Loaders : LoadCacheRead(t)
    \/ \E t \in Loaders : LoadFetchEnds(t)
    \/ \E t \in Loaders : LoadPremiumEnds(t)
    \/ \E t \in Loaders : SaveOpens(t)
    \/ \E t \in Loaders : SaveFlushes(t)
    \/ \E t \in Loaders : SaveCloses(t)

\* The initial load of a ProxyManager and the loads after it, over files
\* that outlive the process.
SpecLoad == InitLoad /\ [][NextLoad]_vars

-----------------------------------------------------------------------------
(* AnonymousBrowser  (src/src/core/browser_manager.py) *)

\* The awaits of launch (lines 32-62), in order.
launch_steps ==
    <<"generate", "playwright_start", "firefox_launch", "new_context",
      "setup_request_interception", "new_page", "setup_mocks", "setup_spoofing">>

\* The await at place B.step of launch has returned: its result is assigned
\* and launch runs to the next await, or to its end.
LaunchStepDone(B) ==
    LET name == launch_steps[B.step]
        B1 == CASE name = "generate" -> [B EXCEPT !.current_config = "fingerprint"]
                [] name = "firefox_launch" -> [B EXCEPT !.browser = "open"]
                [] name = "new_context" -> [B EXCEPT !.context = "open"]
                [] name = "new_page" -> [B EXCEPT !.page = "open"]
                [] OTHER -> B
    IN  IF B.step < Len(launch_steps)
        THEN [B1 EXCEPT !.step = @ + 1]
        ELSE [B1 EXCEPT !.bpc = "launched", !.step = 0, !.hist = "launch"]

\* The await at place B.step raised: launch logs and raises again (lines
\* 65-67); what has been assigned stays.
LaunchStepRaised(B) == [B EXCEPT !.bpc = "launch_failed", !.step = 0, !.hist = None]

\* launch() is called and runs to its first await.
launch(B) ==
    [B EXCEPT !.bpc = "launching", !.step = 1, !.launches = @ + 1, !.hist = None]

\* close() from the test of handle `field` on (lines 268-274): a field that
\* holds an object is true, whether the object is open or closed; the first
\* such field's close is awaited.  After the last one close returns.
CloseFrom(B, field) ==
    IF field = "page" /\ B.page # None THEN [B EXCEPT !.bpc = "closing_page"]
    ELSE IF field \in {"page", "context"} /\ B.context # None
         THEN [B EXCEPT !.bpc = "closing_context"]
    ELSE IF field \in {"page", "context", "browser"} /\ B.browser # None
         THEN [B EXCEPT !.bpc = "closing_browser"]
    ELSE [B EXCEPT !.bpc = "closed",
                   !.hist = IF @ = "launch" THEN "launch_close" ELSE None]

\* close() is called.
close(B) == CloseFrom(B, "page")

\* The awaited close of a handle has returned: the object is closed (closing
\* a closed object changes nothing), the field still holds it.
CloseStepDone(B) ==
    CASE B.bpc = "closing_page" -> CloseFrom([B EXCEPT !.page = "closed"], "context")
      [] B.bpc = "closing_context" -> CloseFrom([B EXCEPT !.context = "closed"], "browser")
      [] B.bpc = "closing_browser" ->
            [B EXCEPT !.browser = "closed", !.bpc = "closing_browser_again"]
      [] B.bpc = "closing_browser_again" -> CloseFrom(B, "done")

\* No coroutine of the object is running.
BrowserAtRest(b) == browsers[b].bpc \in {"new", "launched", "launch_failed", "closed"}

Launch(b) ==
    /\ BrowserAtRest(b)
    /\ browsers[b].launches < MaxLaunches
    /\ Becomes([St EXCEPT !.browsers[b] = launch(@)])

LaunchStep(b) ==
    /\ browsers[b].bpc = "launching"
    /\ Becomes([St EXCEPT !.browsers[b] = LaunchStepDone(@)])

LaunchRaises(b) ==
    /\ browsers[b].bpc = "launching"
    /\ Becomes([St EXCEPT !.browsers[b] = LaunchStepRaised(@)])

Close(b) ==
    /\ BrowserAtRest(b)
    /\ Becomes([St EXCEPT !.browsers[b] = close(@)])

CloseStep(b) ==
    /\ browsers[b].bpc \in {"closing_page", "closing_context", "closing_browser",
                            "closing_browser_again"}
    /\ Becomes([St EXCEPT !.browsers[b] = CloseStepDone(@)])

InitBrowser == InitExec

NextBrowser ==
    \/ \E b \in Browsers : Launch(b)
    \/ \E b \in Browsers : LaunchStep(b)
    \/ \E b \in Browsers : LaunchRaises(b)
    \/ \E b \in Browsers : Close(b)
    \/ \E b \in Browsers : CloseStep(b)

\* AnonymousBrowser objects that are launched and closed.
SpecBrowser == InitBrowser /\ [][NextBrowser]_vars

-----------------------------------------------------------------------------
(* Properties *)

InCall(t) == tk[t].gpc \notin {"none", "returned", "raised"}

ExecEnded(t) == tk[t].fn = "execute" /\ tk[t].epc \in {"returned", "raised"}

\* C1: a relay returned by get_working_proxy is an object whose validation
\* returned True during that same call, and its address is the address of a
\* record of the Pool.
C1_ReturnedWasValidated ==
    \A t \in Tasks :
        (tk[t].gpc = "returned" /\ tk[t].ret # 0) =>
            /\ tk[t].ret \in tk[t].validated
            /\ \E i \in DOMAIN proxies :
                  heap[proxies[i].obj].server = heap[tk[t].ret].server

C1_Witness == \E t \in Tasks : tk[t].gpc = "returned" /\ tk[t].ret # 0

\* C2: an operation that fails on every attempt has been invoked exactly
\* max_attempts times when execute ends, and execute ends in the terminal
\* ExhaustedRetries error carrying the cause of the last failure.
C2_AlwaysFailingRunsMaxAttempts ==
    \A t \in Tasks :
        (ExecEnded(t) /\ tk[t].succeedAt > max_attempts) =>
            /\ tk[t].invoked = max_attempts
            /\ tk[t].result.kind = "ExhaustedRetries"
            /\ tk[t].result.last_error = tk[t].last_error

\* C3: an operation that fails on attempts 1..k-1 and succeeds on attempt
\* k <= max_attempts has been invoked exactly k times when execute ends, and
\* execute ends by returning that attempt's result.
C3_SucceedsOnAttemptK ==
    \A t \in Tasks :
        (ExecEnded(t) /\ tk[t].succeedAt \in 1..max_attempts) =>
            /\ tk[t].invoked = tk[t].succeedAt
            /\ tk[t].epc = "returned"
            /\ tk[t].result.kind = "Success"

\* C4: in every state at most requests_per_minute admissions lie in the
\* trailing window of window_size seconds.
C4_AdmissionsWithinLimit ==
    Cardinality({i \in DOMAIN admissions : admissions[i] > now - window_size})
        <= requests_per_minute

\* C5: get_working_proxy never raises to its caller.
C5_NeverRaises == \A t \in Tasks : tk[t].gpc # "raised"

\* C6: get_working_proxy passes through its loop body at most max_retries
\* times, a pass that the rate-limit check defers included.
C6_LoopBoundedByMaxRetries ==
    \A t \in Tasks : InCall(t) => tk[t].iterations <= tk[t].max_retries

\* The records of the Pool, as it was when task t computed its candidates,
\* that satisfy Keep.
SeenObjects(t, Keep(_)) ==
    {tk[t].pool_seen[j].obj : j \in
        {j \in DOMAIN tk[t].pool_seen : Keep(tk[t].pool_seen[j].rec)}}

CandidatesAre(t, Keep(_)) ==
    /\ {tk[t].candidates[i] : i \in DOMAIN tk[t].candidates} = SeenObjects(t, Keep)
    /\ Len(tk[t].candidates) = Cardinality(SeenObjects(t, Keep))

\* C10 as claimed: with a region filter the candidates are exactly the Pool
\* records whose region equals the filter ignoring case, a record with no
\* region never being one.
C10_OnlyMatchingRegion ==
    \A t \in Tasks :
        (InCall(t) /\ tk[t].region \notin {None, ""}) =>
            CandidatesAre(t, LAMBDA r :
                /\ r.region \notin {None, ""}
                /\ lower(r.region) = lower(tk[t].region))

\* C10 as amended: with a region filter the candidates are exactly the Pool
\* records that have no region or whose region equals the filter ignoring
\* case.
C10_MatchingOrNoRegion ==
    \A t \in Tasks :
        (InCall(t) /\ tk[t].region \notin {None, ""}) =>
            CandidatesAre(t, LAMBDA r :
                \/ r.region \in {None, ""}
                \/ lower(r.region) = lower(tk[t].region))

\* A filtered call whose Pool held a record without region, one whose region
\* matches in another case, and one of another region.
C10_Witness ==
    \E t \in Tasks :
        /\ tk[t].gpc = "validating"
        /\ tk[t].region = "eu"
        /\ \E a, b, c \in DOMAIN tk[t].pool_seen :
              /\ tk[t].pool_seen[a].rec.region = None
              /\ tk[t].pool_seen[b].rec.region = "EU"
              /\ tk[t].pool_seen[c].rec.region = "us"
              /\ tk[t].pool_seen[a].obj \in {tk[t].candidates[i] : i \in DOMAIN tk[t].candidates}
              /\ tk[t].pool_seen[c].obj \notin {tk[t].candidates[i] : i \in DOMAIN tk[t].candidates}

LoadEnded(t) == tk[t].lpc = "done"

\* C7: once load_all_proxies has completed the Pool is not empty.
C7_PoolNotEmptyAfterLoad ==
    \A t \in Tasks : LoadEnded(t) => Len(proxies) > 0

\* C8: a load that the cache file answered, into the empty Pool of a new
\* process, leaves exactly the records that were saved, field for field.
C8_CacheRoundTrip ==
    \A t \in Tasks :
        (LoadEnded(t) /\ tk[t].how = "cache" /\ tk[t].calls = 1) =>
            PoolRecords(St) = fs.saved

\* C9: whenever the process is killed, the cache file it leaves is absent
\* (none was ever saved) or a complete snapshot.
C9_CrashLeavesCompleteFile ==
    fs.at_crash.crashed =>
        (fs.at_crash.cache.exists => fs.at_crash.cache.complete)

\* The score the claim gives the object at place j of the Pool that task t
\* computed its candidates from, as a fraction: (s/(s+f)) * (1/(r+1)), and 0
\* when s = 0 or there is no status.
SeenScore(t, j) ==
    LET server == tk[t].pool_seen[j].rec.server
        seen == tk[t].status_seen
    IN  IF server \in DOMAIN seen /\ seen[server].success_count > 0
        THEN [num |-> seen[server].success_count,
              den |-> (seen[server].success_count + seen[server].fail_count)
                        * (seen[server].response_time + 1)]
        ELSE [num |-> 0, den |-> 1]

\* The place in the Pool of the candidate at place i of the candidates.
SeenPlace(t, i) ==
    CHOOSE j \in DOMAIN tk[t].pool_seen :
        tk[t].pool_seen[j].obj = tk[t].candidates[i]

\* C11: the candidates are in descending order of score, and candidates of
\* equal score are in the order of their insertion into the Pool.
C11_CandidatesRankedByScore ==
    \A t \in Tasks :
        InCall(t) =>
            \A i, j \in DOMAIN tk[t].candidates :
                i < j =>
                    LET a == SeenScore(t, SeenPlace(t, i))
                        b == SeenScore(t, SeenPlace(t, j))
                    IN  /\ a.num * b.den >= b.num * a.den
                        /\ a.num * b.den = b.num * a.den
                              => SeenPlace(t, i) < SeenPlace(t, j)

\* Candidates that are not in the order of the Pool, two of them of equal
\* score and two of different positive scores.
C11_Witness ==
    \E t \in Tasks :
        /\ InCall(t)
        /\ \E i, j \in DOMAIN tk[t].candidates :
              i < j /\ SeenPlace(t, i) > SeenPlace(t, j)
        /\ \E i, j \in DOMAIN tk[t].candidates :
              /\ i < j
              /\ SeenScore(t, SeenPlace(t, i)).num * SeenScore(t, SeenPlace(t, j)).den
                    = SeenScore(t, SeenPlace(t, j)).num * SeenScore(t, SeenPlace(t, i)).den
        /\ \E i, j \in DOMAIN tk[t].candidates :
              /\ SeenScore(t, SeenPlace(t, j)).num > 0
              /\ SeenScore(t, SeenPlace(t, i)).num * SeenScore(t, SeenPlace(t, j)).den
                    > SeenScore(t, SeenPlace(t, j)).num * SeenScore(t, SeenPlace(t, i)).den

\* The record at place j of the Pool task t saw has the region t asked for.
SeenMatches(t, j) ==
    /\ Truthy(tk[t].pool_seen[j].rec.region)
    /\ lower(tk[t].pool_seen[j].rec.region) = lower(tk[t].region)

\* The status task t saw for the record at place j (only where SeenScore is
\* positive).
SeenStatus(t, j) == tk[t].status_seen[tk[t].pool_seen[j].rec.server]

\* C12: when a region is asked for, every record of the Pool has a region,
\* those of the region asked for have been validated with success before,
\* and the one validation of the call succeeds, then the record returned is
\* of that region and none of that region with the same success rate has a
\* smaller response time.
C12_ReturnsFastestOfRegion ==
    [][\A t \in Tasks :
          ( /\ tk[t].gpc = "validating" /\ tk[t].ci = 1 /\ tk[t].retries = 0
            /\ Truthy(tk[t].region)
            /\ \A j \in DOMAIN tk[t].pool_seen :
                  /\ Truthy(tk[t].pool_seen[j].rec.region)
                  /\ SeenMatches(t, j) => SeenScore(t, j).num > 0
            /\ tk'[t].gpc = "returned" /\ tk'[t].ret # 0 )
          => \E o \in DOMAIN tk[t].pool_seen :
                /\ tk[t].pool_seen[o].obj = tk'[t].ret
                /\ SeenMatches(t, o)
                /\ \A j \in DOMAIN tk[t].pool_seen :
                      ( /\ SeenMatches(t, j)
                        /\ SeenStatus(t, j).success_count
                              * (SeenStatus(t, o).success_count + SeenStatus(t, o).fail_count)
                           = SeenStatus(t, o).success_count
                              * (SeenStatus(t, j).success_count + SeenStatus(t, j).fail_count) )
                      => SeenStatus(t, o).response_time <= SeenStatus(t, j).response_time
    ]_vars

\* The first call, for region "eu" (no other filter lets e50 go first),
\* returned the record that answered after 1 and not the one, ahead of it in
\* the Pool, that answered after 4.
C12_Witness ==
    \E t \in Tasks :
        /\ tk[t].gpc = "returned" /\ tk[t].ret # 0 /\ tk[t].calls = 1
        /\ heap[tk[t].ret].server = "e50:8080"
        /\ \E i \in DOMAIN proxies :
              /\ i < tk[t].ret
              /\ heap[proxies[i].obj].server = "e200:8080"
              /\ status_cache["e200:8080"].response_time = 4
        /\ \E i \in DOMAIN proxies : heap[proxies[i].obj].server = "u10:8080"

\* int(port) for the port fields of the model's inputs; -1 where the field
\* is no decimal number.
PortNumber(port) ==
    CASE port = "8080" -> 8080
      [] port = "1080" -> 1080
      [] port = "99999" -> 99999
      [] OTHER -> -1

\* A line of a feed that names a relay: host:port[:protocol] with a host
\* and a port in 1..65535.
ValidLine(line) ==
    /\ Len(line) >= 2
    /\ StripSplit(line)[1] # ""
    /\ PortNumber(StripSplit(line)[2]) \in 1..65535

\* The address a valid line names.
LineAddress(line) == StripSplit(line)[1] \o ":" \o StripSplit(line)[2]

\* C13: after the first load of a process, from the feeds alone, the Pool
\* holds exactly the valid entries the feeds answered with, one record for
\* each; empty lines and malformed entries have added none.
C13_OnlyValidEntriesLoaded ==
    \A t \in Tasks :
        ( /\ LoadEnded(t) /\ tk[t].how = "sources" /\ tk[t].calls = 1
          /\ fs.restarts = 0 /\ ~fs.services.exists )
        => LET valid == {LineAddress(l) : l \in {x \in tk[t].lines_seen : ValidLine(x)}}
           IN  /\ {heap[proxies[i].obj].server : i \in DOMAIN proxies} = valid
               /\ Len(proxies) = Cardinality(valid)

\* C14: when a load from the sources has ended, every premium service of
\* the configuration that the program knows has been requested, whatever
\* happened to the sources before it, and every relay a feed answered with
\* is in the Pool.
C14_FailedSourceIsSkipped ==
    \A t \in Tasks :
        (LoadEnded(t) /\ tk[t].how = "sources") =>
            /\ \A i \in DOMAIN fs.services.list :
                  fs.services.list[i] \in premium_services
                      => fs.services.list[i] \in tk[t].requested
            /\ \A l \in tk[t].lines_seen :
                  Len(l) >= 2 =>
                      \E i \in DOMAIN proxies :
                          heap[proxies[i].obj].server = LineAddress(l)

\* The protocol the fixed port table gives a port.
PortTable(port) ==
    IF port \in {1080, 4145, 4153} THEN "ProxyProtocol.SOCKS5"
    ELSE IF port \in {1081, 4144} THEN "ProxyProtocol.SOCKS4"
    ELSE "ProxyProtocol.HTTP"

\* C15: after the first load of a process from the sources, the record of a
\* line host:port without a protocol field has the protocol the port table
\* gives its port.
C15_ProtocolFromPortTable ==
    \A t \in Tasks :
        (LoadEnded(t) /\ tk[t].how = "sources" /\ tk[t].calls = 1 /\ fs.restarts = 0) =>
            \A l \in tk[t].lines_seen :
                Len(l) = 2 =>
                    \A i \in DOMAIN proxies :
                        heap[proxies[i].obj].server = LineAddress(l) =>
                            heap[proxies[i].obj].protocol
                                = PortTable(PortNumber(StripSplit(l)[2]))

\* C16: a task that _wait_for_rate_limit has put to sleep sleeps no longer
\* than the window, and it is admitted in the end (the operation is handed
\* to wait_for).
C16_AdmitReturns ==
    /\ [](\A t \in Tasks :
            tk[t].epc = "rl_sleep" => tk[t].timer <= now + window_size)
    /\ \A t \in Tasks : (tk[t].epc = "rl_sleep") ~> (tk[t].epc = "op")

\* A task that has slept in _wait_for_rate_limit has been admitted: the
\* timestamp it waited for, which an admission without sleep would have
\* dropped, is still the oldest one.
C16_Witness ==
    \E t \in Tasks :
        /\ tk[t].epc = "op"
        /\ tk[t].timer = now + timeout_total
        /\ _request_timestamps # <<>>
        /\ _request_timestamps[1] = now - window_size

\* C17: after launch() and then close() have completed, the page is absent
\* or closed, and the context handle and the browser handle are None.
C17_CloseReleasesSession ==
    \A b \in Browsers :
        (browsers[b].bpc = "closed" /\ browsers[b].hist = "launch_close") =>
            /\ browsers[b].page \in {None, "closed"}
            /\ browsers[b].context = None
            /\ browsers[b].browser = None

\* The port of an address host:port, as a number, for the addresses the
\* model's inputs make; -1 where there is none.
AddressPort(server) ==
    CASE server \in {"h1:8080", "h3:8080"}
            \cup {default_proxies[i].server : i \in DOMAIN default_proxies} -> 8080
      [] server \in {"h2:1080", "h4:1080"} -> 1080
      [] server = "h5:99999" -> 99999
      [] OTHER -> -1

\* C18: every record of the Pool has a non-empty address whose port is an
\* integer in 1..65535.
C18_AddressHasPortInRange ==
    \A i \in DOMAIN proxies :
        /\ heap[proxies[i].obj].server # ""
        /\ AddressPort(heap[proxies[i].obj].server) \in 1..65535

\* C19: every key of the Pool is the address of the record stored under it.
C19_KeyIsAddress ==
    \A i \in DOMAIN proxies : proxies[i].key = heap[proxies[i].obj].server

\* C20: for every object whose validation attempt has ended, in whatever
\* way, there is a ProxyStatus under its address with
\* success_count + fail_count >= 1.
C20_AttemptLeavesStatus ==
    \A t \in Tasks :
        \A o \in tk[t].attempted :
            /\ heap[o].server \in DOMAIN status_cache
            /\ status_cache[heap[o].server].success_count
                  + status_cache[heap[o].server].fail_count >= 1

\* The step of task t is a validation of object tk[t].arg that succeeds.
ValidationSucceeds(t) ==
    /\ tk[t].gpc = "validating"
    /\ tk[t].epc = "op"
    /\ tk[t].arg \notin tk[t].validated
    /\ tk[t].arg \in tk'[t].validated

\* C21: the step in which a validation of an address succeeds leaves the
\* ProxyStatus of that address without last_error, whatever it held before.
C21_SuccessClearsLastError ==
    [][\A t \in Tasks :
          ValidationSucceeds(t) =>
              status_cache'[heap[tk[t].arg].server].last_error = None
    ]_vars

\* datetime.now() - start_time of the running check of task t (line 290):
\* the check started when wait_for was handed the operation.
CheckDuration(t) == now - (tk[t].timer - timeout_total)

\* C22: the step in which a validation of an address succeeds leaves
\* response_time of that address equal to the duration of that check, and in
\* every state a status that has seen no success carries no response_time
\* (the field holds no number).
C22_ResponseTimeOfLastSuccess ==
    /\ [][\A t \in Tasks :
            ValidationSucceeds(t) =>
                status_cache'[heap[tk[t].arg].server].response_time = CheckDuration(t)
       ]_vars
    /\ [](\A server \in DOMAIN status_cache :
            status_cache[server].success_count = 0
                => status_cache[server].response_time \notin Int)

\* The step of task t is the failure of an attempt of execute that is not
\* the last one.
AttemptFails(t) ==
    /\ tk[t].fn = "execute"
    /\ tk[t].epc = "op"
    /\ tk'[t].epc \notin {"op", "returned"}
    /\ tk[t].attempt + 1 < max_attempts

\* C23: after a failed attempt that is not the last one the Rate Limiter is
\* passed first (the task waits in it, or is let through and sleeps the
\* backoff), and the end of the backoff sleep is the start of the next
\* attempt: fail(n), admit, sleep(delay_n), attempt(n+1).
C23_AdmitBeforeBackoff ==
    [][\A t \in Tasks :
          /\ AttemptFails(t) =>
                /\ tk'[t].epc \in {"rl_sleep", "backoff"}
                /\ tk'[t].attempt = tk[t].attempt + 1
          /\ (tk[t].epc = "backoff" /\ tk'[t].epc # "backoff") =>
                /\ tk'[t].epc = "op"
                /\ tk'[t].invoked = tk[t].invoked + 1
    ]_vars

\* The step of task t issues an outbound request: the request of a feed
\* (line 219), of a premium service (line 419), or a validation check handed
\* to wait_for (request_handler.py line 74).
IssuesFeedRequest(t) == tk'[t].source \notin {0, tk[t].source}

IssuesPremiumRequest(t) ==
    /\ tk'[t].lpc = "premium"
    /\ tk[t].lpc # "premium" \/ tk'[t].svc # tk[t].svc

IssuesCheck(t) ==
    /\ tk'[t].epc = "op"
    /\ tk[t].epc # "op" \/ tk'[t].ci # tk[t].ci

\* C24: every step that issues an outbound request (a feed fetch, a premium
\* fetch, a validation check) is a step in which the shared Rate Limiter
\* grants an admission.
C24_EveryRequestAdmitted ==
    [][\A t \in Tasks :
          (IssuesFeedRequest(t) \/ IssuesPremiumRequest(t) \/ IssuesCheck(t)) =>
              /\ Len(admissions') = Len(admissions) + 1
              /\ admissions'[Len(admissions')] = now
    ]_vars

\* C25: one ProxyManager enters Loading once: in every state at most one
\* load_all_proxies has been started on it, running or finished.
C25_LoadingEnteredOnce ==
    /\ \A t \in Tasks : tk[t].fn = "load_all" => tk[t].calls <= 1
    /\ Cardinality({t \in Tasks : tk[t].fn = "load_all"}) <= 1

\* C26: when load_all_proxies has ended, either the cache file answered with
\* at least one record and no source was requested, or the sources were
\* loaded and the cache file is a complete snapshot of the Pool they left.
C26_SourcesIffCacheMiss ==
    \A t \in Tasks :
        LoadEnded(t) =>
            /\ tk[t].how = "cache" =>
                  /\ Len(fs.cache.text) >= 1
                  /\ tk[t].lines_seen = {}
                  /\ tk[t].requested = {}
            /\ tk[t].how # "cache" =>
                  /\ tk[t].how = "sources"
                  /\ fs.cache.exists
                  /\ fs.cache.complete
                  /\ fs.saved = PoolRecords(St)

\* The "current" selection: NetworkRequestHandler.current_proxy, which
\* ContextSpoofer reads.  Neither NetworkRequestHandler (its constructor
\* binds no such attribute and it defines no rotate_proxy) nor ProxyManager
\* (get_working_proxy returns the relay and stores it nowhere) has a
\* statement that assigns it: it is no object (0) in every state.
current_proxy == 0

\* C27: once a get_working_proxy call has returned a relay, "current" is
\* the relay some such call returned (the one that updated it last), and in
\* every state "current" is unset or an object of the Pool.
C27_CurrentIsLastReturned ==
    /\ (\E t \in Tasks : tk[t].gpc = "returned" /\ tk[t].ret # 0) =>
          \E t \in Tasks :
              tk[t].gpc = "returned" /\ tk[t].ret # 0 /\ current_proxy = tk[t].ret
    /\ \/ current_proxy = 0
       \/ \E i \in DOMAIN proxies : proxies[i].obj = current_proxy

\* The chunk, of size mc, that place i of a batch falls in.
Chunk(i, mc) == ((i - 1) \div mc) + 1

\* The checks of task t that are in flight: validate_proxy has been called
\* for the candidate and has not ended.
InFlight(t) == tk[t].started \ tk[t].ended

AllEndpointsFail(t) ==
    /\ tk[t].gpc = "validating"
    /\ tk[t].epc = "op"
    /\ tk[t].ci \in tk'[t].ended \ tk[t].ended
    /\ tk[t].arg \notin tk'[t].validated
    /\ tk'[t].gpc # "raised"

\* fail_count of an address in the state; 0 without a status.
FailCount(server) ==
    IF server \in DOMAIN status_cache THEN status_cache[server].fail_count ELSE 0

\* C29: when every endpoint fails for a record, without timeout, the check
\* has been invoked once, on attempt 1 of execute; execute returns (False)
\* without backoff and get_working_proxy goes on to the next candidate or
\* ends its round; and fail_count of the address has risen by exactly 1.
C29_FailureIsReturnedOnce ==
    [][\A t \in Tasks :
          AllEndpointsFail(t) =>
              /\ tk[t].invoked = 1
              /\ tk[t].attempt = 0
              /\ tk'[t].epc # "backoff"
              /\ \/ tk'[t].gpc = "validating" /\ tk'[t].ci = tk[t].ci + 1
                 \/ tk'[t].gpc = "retry_sleep" /\ tk'[t].retries = tk[t].retries + 1
              /\ status_cache'[heap[tk[t].arg].server].fail_count
                    = FailCount(heap[tk[t].arg].server) + 1
    ]_vars

\* Two validate_proxy calls for one address have both found every endpoint
\* failing: its fail_count is 2 and it has never succeeded.
C29_Witness ==
    \E server \in DOMAIN status_cache :
        /\ status_cache[server].fail_count = 2
        /\ status_cache[server].success_count = 0
        /\ status_cache[server].last_error = "All validation URLs failed"

\* C30: in every state, under every interleaving of concurrent
\* get_working_proxy calls, the counter of ProxyManager.rate_limits is at
\* most its limit.
C30_CounterWithinLimit ==
    rate_limits.request_count <= rate_limits.requests_per_minute

====
